---- MODULE Spec2Model ----
(***************************************************************************)
(* FileVault backend: the content ledger (file_hashes), the ownership      *)
(* ledger (user_files), the share registry (share_links) and the MinIO     *)
(* content store, driven by the FileService / FileHandler operations.      *)
(*                                                                         *)
(* Every request runs in a slot.  A request is a sequence of statements;   *)
(* each statement that touches PostgreSQL or MinIO is one step, so that    *)
(* requests interleave statement by statement.  A gorm transaction         *)
(* (db.Begin .. Commit) runs at READ COMMITTED: a statement reads the      *)
(* committed rows plus the transaction's own pending writes, a write       *)
(* takes the row lock until the transaction ends, and Commit publishes     *)
(* the pending writes at once.                                             *)
(***************************************************************************)
EXTENDS Integers, FiniteSets, Sequences, TLC

\* ------------------------------------------------------------------ bounds
MaxReq == 2
MaxFiles == 3
MaxUrls == 2
MaxSize == 2
StorageQuota == 2
MaxBatch == 2
\* const maxStorage = 10 * 1024 * 1024 * 1024, on the scale of Sizes: above
\* the quota of a user (10 MB by default).
maxStorage == 4

Slots == 1..MaxReq
FileIds == 1..MaxFiles
Users == {"u1", "u2"}
Hashes == {"h1"}
AllHashes == {"h1", "h2"}
ShareIds == {"s1", "s2"}
Sizes == 1..MaxSize

\* Byte size of the content that hashes to h (what stat reports for it).
ContentSize(h) == IF h = "h1" THEN 1 ELSE 2

VARIABLES
    fileHashes,   \* file_hashes: hash -> [Size, ReferenceCount, MinIOKey]
    userFiles,    \* user_files: id -> [UserID, FileHash, IsPublic]
    shareLinks,   \* share_links: short id -> user file id
    blobs,        \* MinIO bucket: object key -> stored size
    tags,         \* object keys carrying the tag public=true
    nextId,       \* next uuid.New()
    req,          \* the request running in each slot
    cleanup,      \* object keys a spawned goroutine is still to delete
    urlCount,     \* upload URLs issued per hash so far
    stats,        \* last GetStorageStatistics result
    ret,          \* what the step just taken returned to its caller, if it returned
    okUploads,    \* history: uploads that returned success, per hash
    okDeletes,    \* history: DeleteUserFile calls that returned nil, per hash
    attempted,    \* history: keys DeleteUserFile called storage.DeleteFile on
    failed,       \* history: the <<operation, error>> pairs returned so far
    firstLink,    \* history: the first share link returned for each file
    declared,     \* history: the sizes declared when authorizing each hash
    toggled,      \* history: per file, whether the number of toggles that
                  \* succeeded is odd
    upload        \* the browser: the state of the useFileUpload hook

vars == <<fileHashes, userFiles, shareLinks, blobs, tags, nextId, req, cleanup,
          urlCount, stats, ret, okUploads, okDeletes, attempted, failed,
          firstLink, declared, toggled, upload>>

ledgers == <<fileHashes, userFiles, shareLinks>>
store == <<blobs, tags>>
history == <<okUploads, okDeletes, attempted, failed, firstLink, declared,
            toggled>>

\* ------------------------------------------------------------------ tables
Put(f, k, v) == [x \in (DOMAIN f) \cup {k} |-> IF x = k THEN v ELSE f[x]]
Del(f, k) == [x \in (DOMAIN f) \ {k} |-> f[x]]

EmptyTable == [x \in {} |-> 0]
NoUFWrite == [kind |-> "none", id |-> 0]
NoFHWrite == [kind |-> "none", id |-> ""]
NoURL == [signed |-> FALSE, key |-> "", expiry |-> ""]
\* useFileUpload before any call of processFiles: uploadingFiles is empty.
NoUpload == [phase |-> "idle", entries |-> <<>>, i |-> 0, toUpload |-> <<>>]
NoResp == [op |-> "", status |-> "none", err |-> "", isDuplicate |-> FALSE,
           uploadURL |-> FALSE, fid |-> 0, hash |-> "", isPublic |-> FALSE,
           shareLink |-> "", user |-> "", url |-> NoURL,
           Files |-> <<>>, TotalSizeRequired |-> 0, QuotaAvailable |-> TRUE]
NoStats == [user |-> "", TotalStorage |-> 0, OriginalStorage |-> 0, FileCount |-> 0,
            DuplicateCount |-> 0, SavingsBytes |-> 0]

IdleReq ==
    [op |-> "idle", pc |-> "", user |-> "", hash |-> "", fid |-> 0, key |-> "",
     ufw |-> NoUFWrite, fhw |-> NoFHWrite, size |-> 0, remainingRefs |-> 0,
     newPublicStatus |-> FALSE, isPublic |-> FALSE]

Quiescent == (\A s \in Slots : req[s].op = "idle") /\ cleanup = {}

\* Live user_files rows that reference hash h (committed).
Refs(h) == {f \in DOMAIN userFiles : userFiles[f].FileHash = h}

\* -------------------------------------------------------------- row locks
\* Another open transaction holds a pending write on file_hashes row h.
OtherFHLock(s, h) ==
    \E t \in Slots \ {s} : req[t].fhw.kind # "none" /\ req[t].fhw.id = h

\* Another open transaction holds a pending DELETE of file_hashes row h.
OtherFHDelete(s, h) ==
    \E t \in Slots \ {s} : req[t].fhw.kind = "del" /\ req[t].fhw.id = h

\* Another open transaction inserted a user_files row referencing h: the
\* foreign key check holds FOR KEY SHARE on the file_hashes row.
OtherKeyShare(s, h) ==
    \E t \in Slots \ {s} : req[t].ufw.kind = "ins" /\ req[t].ufw.row.FileHash = h

\* Another open transaction holds a pending write on user_files row f.
OtherUFLock(s, f) ==
    \E t \in Slots \ {s} : req[t].ufw.kind \in {"del", "upd"} /\ req[t].ufw.id = f

\* Variant: user_files declared without the foreign key to file_hashes.
NoForeignKey(s, h) == TRUE

\* The user_files -> file_hashes foreign key, checked when transaction s
\* inserts a row referencing h: the referenced row must be visible to s.
FKFileHashOK(s, h) ==
    IF req[s].fhw.kind # "none" /\ req[s].fhw.id = h
    THEN req[s].fhw.kind = "put"
    ELSE h \in DOMAIN fileHashes

\* The same foreign key, checked when transaction s deletes file_hashes row
\* h: no user_files row (committed, and not deleted by s) may reference it.
FKNoReferrers(s, h) ==
    Refs(h) \ (IF req[s].ufw.kind = "del" THEN {req[s].ufw.id} ELSE {}) = {}

\* ------------------------------------------------------------ transactions
ApplyUF(w, t) ==
    CASE w.kind = "ins" -> Put(t, w.id, w.row)
      [] w.kind = "upd" -> IF w.id \in DOMAIN t THEN Put(t, w.id, w.row) ELSE t
      [] w.kind = "del" -> Del(t, w.id)
      [] OTHER -> t

ApplyFH(w, t) ==
    CASE w.kind = "put" -> Put(t, w.id, w.row)
      [] w.kind = "del" -> Del(t, w.id)
      [] OTHER -> t

\* tx.Commit(): the pending writes of slot s become visible together.
Commit(s) ==
    /\ userFiles' = ApplyUF(req[s].ufw, userFiles)
    /\ fileHashes' = ApplyFH(req[s].fhw, fileHashes)

\* The request in slot s returns; tx.Rollback() (or no transaction) drops
\* whatever the transaction had pending.
Return(s, resp) ==
    /\ req' = [req EXCEPT ![s] = IdleReq]
    /\ ret' = resp

Resp(op, status, fid, h) ==
    [NoResp EXCEPT !.op = op, !.status = status, !.fid = fid, !.hash = h]

Ok(s, op) == Return(s, Resp(op, "ok", req[s].fid, req[s].hash))

Fail(s, op, err) ==
    Return(s, [Resp(op, "error", req[s].fid, req[s].hash) EXCEPT !.err = err])

\* The request in slot s goes on, as r.
Continue(s, r) ==
    /\ req' = [req EXCEPT ![s] = r]
    /\ ret' = NoResp

Goto(s, pc) == Continue(s, [req[s] EXCEPT !.pc = pc])

\* Variant: the duplicate path creates the user file and leaves the count.
IncrementRefSkipped(s, h) == NoFHWrite

\* reference_count + 1 under the row lock, on the latest committed row.
IncrementRef(s, h) ==
    IF h \in DOMAIN fileHashes
    THEN [kind |-> "put", id |-> h,
          row |-> [fileHashes[h] EXCEPT !.ReferenceCount = @ + 1]]
    ELSE NoFHWrite

NewUserFile(u, h) == [UserID |-> u, FileHash |-> h, IsPublic |-> FALSE]

\* ------------------------------------------------------------------- Init
\* Nothing running, nothing returned, no history.
InitIdle ==
    /\ req = [s \in Slots |-> IdleReq]
    /\ cleanup = {}
    /\ stats = NoStats
    /\ ret = NoResp
    /\ okUploads = [h \in Hashes |-> 0]
    /\ okDeletes = [h \in Hashes |-> 0]
    /\ attempted = {}
    /\ failed = {}
    /\ firstLink = [f \in FileIds |-> ""]
    /\ declared = [h \in AllHashes |-> {}]
    /\ toggled = [f \in FileIds |-> FALSE]
    /\ upload = NoUpload

\* The server after start-up: empty tables, empty bucket.
Init ==
    /\ fileHashes = EmptyTable
    /\ userFiles = EmptyTable
    /\ shareLinks = EmptyTable
    /\ blobs = EmptyTable
    /\ tags = {}
    /\ nextId = 1
    /\ urlCount = [h \in Hashes |-> 0]
    /\ InitIdle

\* A request starts in the lowest idle slot (slots are interchangeable).
CanStart(s) ==
    /\ req[s].op = "idle"
    /\ \A t \in Slots : t < s => req[t].op # "idle"

\* Variant: the new-content path creates the user file at authorization.
StartAuthorizeReserve(s, u, h) ==
    /\ CanStart(s)
    /\ h \notin DOMAIN fileHashes
    /\ urlCount[h] < MaxUrls
    /\ nextId <= MaxFiles
    /\ userFiles' = Put(userFiles, nextId, NewUserFile(u, h))
    /\ nextId' = nextId + 1
    /\ Return(s, [Resp("auth", "ok", 0, h) EXCEPT !.uploadURL = TRUE])
    /\ urlCount' = [urlCount EXCEPT ![h] = @ + 1]
    /\ UNCHANGED <<fileHashes, shareLinks, store, cleanup, stats>>

\* ------------------------------------- FileService.GeneratePresignedUploadURL
\* s.db.Where("hash = ?", fileHash).First(&existingFileHash), outside any
\* transaction.  Found: the duplicate path, with a fresh uuid for the
\* UserFile.  Not found: the upload URL for finalKey := fileHash.
StartAuthorize(s, u, h) ==
    /\ CanStart(s)
    /\ \/ /\ h \in DOMAIN fileHashes
          /\ nextId <= MaxFiles
          /\ Continue(s, [IdleReq EXCEPT !.op = "auth", !.pc = "dupCreate",
                                         !.user = u, !.hash = h, !.fid = nextId])
          /\ nextId' = nextId + 1
          /\ UNCHANGED urlCount
       \/ /\ h \notin DOMAIN fileHashes
          /\ urlCount[h] < MaxUrls
          /\ Return(s, [Resp("auth", "ok", 0, h) EXCEPT !.uploadURL = TRUE])
          /\ urlCount' = [urlCount EXCEPT ![h] = @ + 1]
          /\ UNCHANGED nextId
       \/ /\ Return(s, [Resp("auth", "error", 0, h) EXCEPT !.err = "db"])
          /\ UNCHANGED <<nextId, urlCount>>
    /\ UNCHANGED <<ledgers, store, cleanup, stats>>

\* tx := s.db.Begin(); tx.Create(&userFile)
AuthCreateUserFile(s) ==
    /\ req[s].op = "auth" /\ req[s].pc = "dupCreate"
    /\ LET h == req[s].hash IN
       /\ ~OtherFHDelete(s, h)
       /\ \/ /\ FKFileHashOK(s, h)
             /\ Continue(s, [req[s] EXCEPT !.pc = "dupInc",
                               !.ufw = [kind |-> "ins", id |-> req[s].fid,
                                        row |-> NewUserFile(req[s].user, h)]])
          \/ /\ ~FKFileHashOK(s, h)
             /\ Fail(s, "auth", "fk")
          \/ Fail(s, "auth", "db")
    /\ UNCHANGED <<ledgers, store, nextId, cleanup, urlCount, stats>>

\* tx.Model(&existingFileHash).Update("reference_count", reference_count + 1)
AuthIncrementRef(s) ==
    /\ req[s].op = "auth" /\ req[s].pc = "dupInc"
    /\ LET h == req[s].hash IN
       /\ ~OtherFHLock(s, h)
       /\ \/ Continue(s, [req[s] EXCEPT !.pc = "commit", !.fhw = IncrementRef(s, h)])
          \/ Fail(s, "auth", "db")
    /\ UNCHANGED <<ledgers, store, nextId, cleanup, urlCount, stats>>

\* tx.Commit() and the response: IsDuplicate, UploadURL ""
AuthCommit(s) ==
    /\ req[s].op = "auth" /\ req[s].pc = "commit"
    /\ \/ /\ Commit(s)
          /\ Return(s, [Resp("auth", "ok", req[s].fid, req[s].hash)
                           EXCEPT !.isDuplicate = TRUE])
       \/ /\ Fail(s, "auth", "db")
          /\ UNCHANGED <<fileHashes, userFiles>>
    /\ UNCHANGED <<shareLinks, store, nextId, cleanup, urlCount, stats>>

\* ------------------------------------------------------------- the client
\* The client PUTs the content to the presigned URL it was issued for key h.
\* A PUT replaces the object, so the new object carries no tags.
ClientPut(h) ==
    /\ urlCount[h] > 0
    /\ blobs' = Put(blobs, h, ContentSize(h))
    /\ tags' = tags \ {h}
    /\ ret' = NoResp
    /\ UNCHANGED <<ledgers, nextId, req, cleanup, urlCount, stats>>

\* --------------------------------------------- FileService.CompleteFileUpload
\* s.storage.GetFileInfo(ctx, objectKey), with objectKey the key of the
\* upload URL; the uuid for the UserFile is drawn here.
StartComplete(s, u, h) ==
    /\ CanStart(s)
    /\ urlCount[h] > 0
    /\ nextId <= MaxFiles
    /\ \/ /\ h \in DOMAIN blobs
          /\ Continue(s, [IdleReq EXCEPT !.op = "complete", !.pc = "txLookup",
                                         !.user = u, !.hash = h, !.key = h,
                                         !.size = blobs[h], !.fid = nextId])
          /\ nextId' = nextId + 1
       \/ /\ h \notin DOMAIN blobs
          /\ Return(s, [Resp("complete", "error", 0, h) EXCEPT !.err = "storage"])
          /\ UNCHANGED nextId
    /\ UNCHANGED <<ledgers, store, cleanup, urlCount, stats>>

\* tx := s.db.Begin(); tx.Where("hash = ?", fileHash).First(&fileHashRecord)
CompleteLookup(s) ==
    /\ req[s].op = "complete" /\ req[s].pc = "txLookup"
    /\ \/ /\ req[s].hash \in DOMAIN fileHashes
          /\ Goto(s, "incRef")
       \/ /\ req[s].hash \notin DOMAIN fileHashes
          /\ Goto(s, "createHash")
       \/ Fail(s, "complete", "db")
    /\ UNCHANGED <<ledgers, store, nextId, cleanup, urlCount, stats>>

\* Variant: the new record is created with ReferenceCount 0.
CompleteCreateHashZero(s) ==
    /\ req[s].op = "complete" /\ req[s].pc = "createHash"
    /\ req[s].hash \notin DOMAIN fileHashes
    /\ ~OtherFHLock(s, req[s].hash)
    /\ Continue(s, [req[s] EXCEPT !.pc = "createUF",
                      !.fhw = [kind |-> "put", id |-> req[s].hash,
                               row |-> [Size |-> req[s].size, ReferenceCount |-> 0,
                                        MinIOKey |-> req[s].key]]])
    /\ UNCHANGED <<ledgers, store, nextId, cleanup, urlCount, stats>>

\* tx.Create(&fileHashRecord): hash is the primary key of file_hashes.
CompleteCreateHash(s) ==
    /\ req[s].op = "complete" /\ req[s].pc = "createHash"
    /\ LET h == req[s].hash IN
       /\ ~OtherFHLock(s, h)
       /\ \/ /\ h \notin DOMAIN fileHashes
             /\ Continue(s, [req[s] EXCEPT !.pc = "createUF",
                               !.fhw = [kind |-> "put", id |-> h,
                                        row |-> [Size |-> req[s].size,
                                                 ReferenceCount |-> 1,
                                                 MinIOKey |-> req[s].key]]])
          \/ /\ h \in DOMAIN fileHashes
             /\ Fail(s, "complete", "unique")
          \/ Fail(s, "complete", "db")
    /\ UNCHANGED <<ledgers, store, nextId, cleanup, urlCount, stats>>

\* The record exists: reference_count + 1, and a goroutine is spawned to
\* delete objectKey, "the duplicate file that was just uploaded".
CompleteIncrementRef(s) ==
    /\ req[s].op = "complete" /\ req[s].pc = "incRef"
    /\ LET h == req[s].hash IN
       /\ ~OtherFHLock(s, h)
       /\ \/ /\ Continue(s, [req[s] EXCEPT !.pc = "createUF",
                                           !.fhw = IncrementRef(s, h)])
             /\ cleanup' = cleanup \cup {req[s].key}
          \/ /\ Fail(s, "complete", "db")
             /\ UNCHANGED cleanup
    /\ UNCHANGED <<ledgers, store, nextId, urlCount, stats>>

\* tx.Create(&userFile)
CompleteCreateUserFile(s) ==
    /\ req[s].op = "complete" /\ req[s].pc = "createUF"
    /\ LET h == req[s].hash IN
       /\ ~OtherFHDelete(s, h)
       /\ \/ /\ FKFileHashOK(s, h)
             /\ Continue(s, [req[s] EXCEPT !.pc = "commit",
                               !.ufw = [kind |-> "ins", id |-> req[s].fid,
                                        row |-> NewUserFile(req[s].user, h)]])
          \/ /\ ~FKFileHashOK(s, h)
             /\ Fail(s, "complete", "fk")
          \/ Fail(s, "complete", "db")
    /\ UNCHANGED <<ledgers, store, nextId, cleanup, urlCount, stats>>

\* tx.Commit(); return &userFile
CompleteCommit(s) ==
    /\ req[s].op = "complete" /\ req[s].pc = "commit"
    /\ \/ /\ Commit(s)
          /\ Ok(s, "complete")
       \/ /\ Fail(s, "complete", "db")
          /\ UNCHANGED <<fileHashes, userFiles>>
    /\ UNCHANGED <<shareLinks, store, nextId, cleanup, urlCount, stats>>

\* The goroutine spawned by CompleteFileUpload: s.storage.DeleteFile(objectKey);
\* a failure is printed and dropped.
AsyncDeleteFile(k) ==
    /\ k \in cleanup
    /\ cleanup' = cleanup \ {k}
    /\ \/ /\ blobs' = Del(blobs, k)
          /\ tags' = tags \ {k}
       \/ UNCHANGED <<blobs, tags>>
    /\ ret' = NoResp
    /\ UNCHANGED <<ledgers, nextId, req, urlCount, stats>>

\* ------------------------------------------------- FileService.DeleteUserFile
\* tx := s.db.Begin(); tx.Where("id = ? AND user_id = ?", ...).First(&userFile)
StartDelete(s, u, f) ==
    /\ CanStart(s)
    /\ \/ /\ f \in DOMAIN userFiles /\ userFiles[f].UserID = u
          /\ Continue(s, [IdleReq EXCEPT !.op = "delete", !.pc = "getHash",
                                         !.user = u, !.fid = f,
                                         !.hash = userFiles[f].FileHash])
       \/ /\ ~(f \in DOMAIN userFiles /\ userFiles[f].UserID = u)
          /\ Return(s, [Resp("delete", "error", f, "") EXCEPT !.err = "notfound"])
       \/ Return(s, [Resp("delete", "error", f, "") EXCEPT !.err = "db"])
    /\ UNCHANGED <<ledgers, store, nextId, cleanup, urlCount, stats>>

\* tx.Where("hash = ?", userFile.FileHash).First(&fileHash)
DeleteGetHash(s) ==
    /\ req[s].op = "delete" /\ req[s].pc = "getHash"
    /\ \/ /\ req[s].hash \in DOMAIN fileHashes
          /\ Continue(s, [req[s] EXCEPT !.pc = "delUF",
                                        !.key = fileHashes[req[s].hash].MinIOKey])
       \/ /\ req[s].hash \notin DOMAIN fileHashes
          /\ Fail(s, "delete", "notfound")
       \/ Fail(s, "delete", "db")
    /\ UNCHANGED <<ledgers, store, nextId, cleanup, urlCount, stats>>

\* The share_links -> user_files foreign key, checked when user_files row f
\* is deleted.
FKNoShareLink(f) == \A l \in DOMAIN shareLinks : shareLinks[l] # f

\* Variant: the row is deleted outside the transaction, at once.
DeleteUserFileRowNoTx(s) ==
    /\ req[s].op = "delete" /\ req[s].pc = "delUF"
    /\ ~OtherUFLock(s, req[s].fid)
    /\ userFiles' = Del(userFiles, req[s].fid)
    /\ Goto(s, "count")
    /\ UNCHANGED <<fileHashes, shareLinks, store, nextId, cleanup, urlCount, stats>>

\* tx.Unscoped().Delete(&userFile)
DeleteUserFileRow(s) ==
    /\ req[s].op = "delete" /\ req[s].pc = "delUF"
    /\ LET f == req[s].fid IN
       /\ ~OtherUFLock(s, f)
       /\ \/ /\ f \in DOMAIN userFiles /\ FKNoShareLink(f)
             /\ Continue(s, [req[s] EXCEPT !.pc = "count",
                                           !.ufw = [kind |-> "del", id |-> f]])
          \/ /\ f \in DOMAIN userFiles /\ ~FKNoShareLink(f)
             /\ Fail(s, "delete", "fk")
          \/ /\ f \notin DOMAIN userFiles
             /\ Goto(s, "count")
          \/ Fail(s, "delete", "db")
    /\ UNCHANGED <<ledgers, store, nextId, cleanup, urlCount, stats>>

\* The rows the recount of transaction s sees: the committed rows, less the
\* one s deleted itself.
RemainingRefs(s) ==
    Refs(req[s].hash) \ (IF req[s].ufw.kind = "del" THEN {req[s].ufw.id} ELSE {})

\* tx.Model(&models.UserFile{}).Where("file_hash = ?", ...).Count(&remainingRefs)
DeleteCount(s) ==
    /\ req[s].op = "delete" /\ req[s].pc = "count"
    /\ \/ LET n == Cardinality(RemainingRefs(s)) IN
          Continue(s, [req[s] EXCEPT !.remainingRefs = n,
                                     !.pc = IF n = 0 THEN "blobDel" ELSE "setRef"])
       \/ Fail(s, "delete", "db")
    /\ UNCHANGED <<ledgers, store, nextId, cleanup, urlCount, stats>>

\* Variant: a failure of the storage delete fails the call.
DeleteBlobStrict(s) ==
    /\ req[s].op = "delete" /\ req[s].pc = "blobDel"
    /\ \/ /\ blobs' = Del(blobs, req[s].key)
          /\ tags' = tags \ {req[s].key}
          /\ Goto(s, "delHash")
       \/ /\ UNCHANGED <<blobs, tags>>
          /\ Fail(s, "delete", "storage")
    /\ UNCHANGED <<ledgers, nextId, cleanup, urlCount, stats>>

\* remainingRefs == 0: s.storage.DeleteFile(ctx, fileHash.MinIOKey), inside
\* the transaction; a failure is printed and the transaction goes on.
DeleteBlob(s) ==
    /\ req[s].op = "delete" /\ req[s].pc = "blobDel"
    /\ \/ /\ blobs' = Del(blobs, req[s].key)
          /\ tags' = tags \ {req[s].key}
       \/ UNCHANGED <<blobs, tags>>
    /\ Goto(s, "delHash")
    /\ UNCHANGED <<ledgers, nextId, cleanup, urlCount, stats>>

\* tx.Delete(&fileHash)
DeleteHashRow(s) ==
    /\ req[s].op = "delete" /\ req[s].pc = "delHash"
    /\ LET h == req[s].hash IN
       /\ ~OtherFHLock(s, h)
       /\ ~OtherKeyShare(s, h)
       /\ \/ /\ h \in DOMAIN fileHashes /\ FKNoReferrers(s, h)
             /\ Continue(s, [req[s] EXCEPT !.pc = "commit",
                                           !.fhw = [kind |-> "del", id |-> h]])
          \/ /\ h \in DOMAIN fileHashes /\ ~FKNoReferrers(s, h)
             /\ Fail(s, "delete", "fk")
          \/ /\ h \notin DOMAIN fileHashes
             /\ Goto(s, "commit")
          \/ Fail(s, "delete", "db")
    /\ UNCHANGED <<ledgers, store, nextId, cleanup, urlCount, stats>>

\* Variant: the count written is the one taken before the row was deleted.
SetReferenceCountStale(s, h) ==
    IF h \in DOMAIN fileHashes
    THEN [kind |-> "put", id |-> h,
          row |-> [fileHashes[h] EXCEPT !.ReferenceCount = req[s].remainingRefs + 1]]
    ELSE NoFHWrite

\* remainingRefs > 0: tx.Model(&fileHash).Update("reference_count", remainingRefs)
SetReferenceCount(s, h) ==
    IF h \in DOMAIN fileHashes
    THEN [kind |-> "put", id |-> h,
          row |-> [fileHashes[h] EXCEPT !.ReferenceCount = req[s].remainingRefs]]
    ELSE NoFHWrite

DeleteSetRef(s) ==
    /\ req[s].op = "delete" /\ req[s].pc = "setRef"
    /\ LET h == req[s].hash IN
       /\ ~OtherFHLock(s, h)
       /\ \/ Continue(s, [req[s] EXCEPT !.pc = "commit",
                                        !.fhw = SetReferenceCount(s, h)])
          \/ Fail(s, "delete", "db")
    /\ UNCHANGED <<ledgers, store, nextId, cleanup, urlCount, stats>>

\* tx.Commit(); return nil
DeleteCommit(s) ==
    /\ req[s].op = "delete" /\ req[s].pc = "commit"
    /\ \/ /\ Commit(s)
          /\ Ok(s, "delete")
       \/ /\ Fail(s, "delete", "db")
          /\ UNCHANGED <<fileHashes, userFiles>>
    /\ UNCHANGED <<shareLinks, store, nextId, cleanup, urlCount, stats>>

\* ----------------------------------------------- FileService.ToggleFilePublic
\* s.db.Preload("FileData").Where("id = ? AND user_id = ?", ...).First(&userFile);
\* newPublicStatus := !userFile.IsPublic.  Any error of the lookup is
\* reported as "file not found".
StartToggle(s, u, f) ==
    /\ CanStart(s)
    /\ \/ /\ f \in DOMAIN userFiles /\ userFiles[f].UserID = u
          /\ LET h == userFiles[f].FileHash IN
             Continue(s, [IdleReq EXCEPT
                 !.op = "toggle", !.pc = "update", !.user = u, !.fid = f, !.hash = h,
                 !.key = IF h \in DOMAIN fileHashes THEN fileHashes[h].MinIOKey ELSE "",
                 !.newPublicStatus = ~userFiles[f].IsPublic])
       \/ Return(s, [Resp("toggle", "error", f, "") EXCEPT !.err = "notfound"])
    /\ UNCHANGED <<ledgers, store, nextId, cleanup, urlCount, stats>>

\* Variant: the flag is written outside the transaction, at once.
ToggleUpdateNoTx(s) ==
    /\ req[s].op = "toggle" /\ req[s].pc = "update"
    /\ req[s].fid \in DOMAIN userFiles
    /\ ~OtherUFLock(s, req[s].fid)
    /\ userFiles' = [userFiles EXCEPT
                        ![req[s].fid].IsPublic = req[s].newPublicStatus]
    /\ Goto(s, "tag")
    /\ UNCHANGED <<fileHashes, shareLinks, store, nextId, cleanup, urlCount, stats>>

\* tx := s.db.Begin(); tx.Model(&userFile).Update("is_public", newPublicStatus)
ToggleUpdate(s) ==
    /\ req[s].op = "toggle" /\ req[s].pc = "update"
    /\ LET f == req[s].fid IN
       /\ ~OtherUFLock(s, f)
       /\ \/ /\ f \in DOMAIN userFiles
             /\ Continue(s, [req[s] EXCEPT !.pc = "tag",
                   !.ufw = [kind |-> "upd", id |-> f,
                            row |-> [userFiles[f] EXCEPT
                                        !.IsPublic = req[s].newPublicStatus]]])
          \/ /\ f \notin DOMAIN userFiles
             /\ Goto(s, "tag")
          \/ Fail(s, "toggle", "db")
    /\ UNCHANGED <<ledgers, store, nextId, cleanup, urlCount, stats>>

\* s.storage.SetObjectTags(ctx, key, {"public": "true"}) or
\* s.storage.RemoveObjectTags(ctx, key), inside the transaction.  err != nil:
\* tx.Rollback() and "failed to update object access".
ToggleTag(s) ==
    /\ req[s].op = "toggle" /\ req[s].pc = "tag"
    /\ \/ /\ req[s].key \in DOMAIN blobs
          /\ tags' = IF req[s].newPublicStatus
                     THEN tags \cup {req[s].key}
                     ELSE tags \ {req[s].key}
          /\ Goto(s, "commit")
       \/ /\ Fail(s, "toggle", "storage")
          /\ UNCHANGED tags
    /\ UNCHANGED <<ledgers, blobs, nextId, cleanup, urlCount, stats>>

\* tx.Commit(); ToggleFilePublic returns nil and the handler goes on.
ToggleCommit(s) ==
    /\ req[s].op = "toggle" /\ req[s].pc = "commit"
    /\ \/ /\ Commit(s)
          /\ Continue(s, [req[s] EXCEPT !.pc = "list", !.ufw = NoUFWrite])
       \/ /\ Fail(s, "toggle", "db")
          /\ UNCHANGED <<fileHashes, userFiles>>
    /\ UNCHANGED <<shareLinks, store, nextId, cleanup, urlCount, stats>>

\* ------------------------------------------------- FileHandler.TogglePublic
\* files, _, err := h.fileService.GetUserFiles(user.ID, 0, 1000); isPublic is
\* the flag of the file in the list, and stays false when the list fails or
\* does not hold the file.
ToggleList(s) ==
    /\ req[s].op = "toggle" /\ req[s].pc = "list"
    /\ LET f == req[s].fid IN
       \/ Continue(s, [req[s] EXCEPT !.pc = "share",
             !.isPublic = /\ f \in DOMAIN userFiles
                          /\ userFiles[f].UserID = req[s].user
                          /\ userFiles[f].IsPublic])
       \/ Continue(s, [req[s] EXCEPT !.pc = "share", !.isPublic = FALSE])
    /\ UNCHANGED <<ledgers, store, nextId, cleanup, urlCount, stats>>

\* The share link of user file f, "" when it has none.
LinkOf(f) ==
    IF \E l \in DOMAIN shareLinks : shareLinks[l] = f
    THEN CHOOSE l \in DOMAIN shareLinks : shareLinks[l] = f
    ELSE ""

\* ShareLink.BeforeCreate: an empty ID becomes GenerateRandomID(8), any
\* string over the charset.
GenerateRandomID == ShareIds

\* FileService.CreateOrGetShareLink: the link the file already has, else a
\* new row under a generated ID; the insert fails on an ID already taken.
\* The result is <<table, returned id>>, "" for an error.
CreateOrGetShareLink(f, id) ==
    IF LinkOf(f) # "" THEN <<shareLinks, LinkOf(f)>>
    ELSE IF id \in DOMAIN shareLinks THEN <<shareLinks, "">>
    ELSE <<Put(shareLinks, id, f), id>>

\* FileService.DeleteShareLink: the share_links rows of the file go.
DeleteShareLink(f) ==
    [l \in {x \in DOMAIN shareLinks : shareLinks[x] # f} |-> shareLinks[l]]

\* Variant: a file made private keeps its share link.
ToggleShareKeepLink(s) ==
    /\ req[s].op = "toggle" /\ req[s].pc = "share"
    /\ \E id \in GenerateRandomID :
          LET got == IF req[s].isPublic
                     THEN CreateOrGetShareLink(req[s].fid, id)
                     ELSE <<shareLinks, "">>
          IN /\ shareLinks' = got[1]
             /\ Return(s, [Resp("toggle", "ok", req[s].fid, req[s].hash) EXCEPT
                              !.isPublic = req[s].isPublic, !.shareLink = got[2]])
    /\ UNCHANGED <<fileHashes, userFiles, store, nextId, cleanup, urlCount, stats>>

\* if isPublic { CreateOrGetShareLink; its error is dropped } else
\* { DeleteShareLink }; 200 with is_public and, when there is one, share_link.
ToggleShare(s) ==
    /\ req[s].op = "toggle" /\ req[s].pc = "share"
    /\ LET f == req[s].fid
           done(link) == Return(s, [Resp("toggle", "ok", f, req[s].hash) EXCEPT
                                       !.isPublic = req[s].isPublic,
                                       !.shareLink = link])
       IN IF req[s].isPublic
          THEN \E id \in GenerateRandomID :
                  /\ shareLinks' = CreateOrGetShareLink(f, id)[1]
                  /\ done(CreateOrGetShareLink(f, id)[2])
          ELSE /\ shareLinks' = DeleteShareLink(f)
               /\ done("")
    /\ UNCHANGED <<fileHashes, userFiles, store, nextId, cleanup, urlCount, stats>>

\* ------------------------------------------------- FileHandler.GetShareLink
\* files, _, err := h.fileService.GetUserFiles(user.ID, 0, 1000): an error is
\* a 500; a file that is not in the list or is not public is a 400.
StartGetShareLink(s, u, f) ==
    /\ CanStart(s)
    /\ \/ /\ f \in DOMAIN userFiles
          /\ userFiles[f].UserID = u
          /\ userFiles[f].IsPublic
          /\ Continue(s, [IdleReq EXCEPT !.op = "share", !.pc = "create",
                                         !.user = u, !.fid = f,
                                         !.hash = userFiles[f].FileHash,
                                         !.isPublic = TRUE])
       \/ /\ ~(/\ f \in DOMAIN userFiles
                /\ userFiles[f].UserID = u
                /\ userFiles[f].IsPublic)
          /\ Return(s, [Resp("share", "error", f, "") EXCEPT !.err = "notpublic"])
       \/ Return(s, [Resp("share", "error", f, "") EXCEPT !.err = "db"])
    /\ UNCHANGED <<ledgers, store, nextId, cleanup, urlCount, stats>>

\* shareID, err := h.fileService.CreateOrGetShareLink(user.ID, fileID): an
\* error is a 500, else 200 with share_link.
GetShareLinkCreate(s) ==
    /\ req[s].op = "share" /\ req[s].pc = "create"
    /\ \E id \in GenerateRandomID :
          LET got == CreateOrGetShareLink(req[s].fid, id) IN
          /\ shareLinks' = got[1]
          /\ IF got[2] = ""
             THEN Fail(s, "share", "db")
             ELSE Return(s, [Resp("share", "ok", req[s].fid, req[s].hash) EXCEPT
                                !.isPublic = TRUE, !.shareLink = got[2]])
    /\ UNCHANGED <<fileHashes, userFiles, store, nextId, cleanup, urlCount, stats>>

\* ------------------------------------------- FileService.GetFileDownloadURL
\* The callers of GetFileDownloadURL: a signed-in user (DownloadFile) or ""
\* for public access (DownloadPublicFile).
Callers == Users \cup {""}

\* MinIOStorage.GetPublicFileURL: scheme://endpoint/bucket/objectKey, with
\* no signature.
GetPublicFileURL(objectKey) == [signed |-> FALSE, key |-> objectKey, expiry |-> ""]

\* MinIOStorage.GetFileURL: PresignedGetObject for objectKey, good for expiry.
GetFileURL(objectKey, expiry) == [signed |-> TRUE, key |-> objectKey, expiry |-> expiry]

\* Variant: any user file is served to any caller.
ServedToAnyone(userID, f) == f \in DOMAIN userFiles

\* Where("id = ?", fileID), and Where("user_id = ? OR is_public = ?", userID,
\* true) for a signed-in caller, Where("is_public = ?", true) for "".
ServedTo(userID, f) ==
    /\ f \in DOMAIN userFiles
    /\ IF userID # ""
       THEN userFiles[f].UserID = userID \/ userFiles[f].IsPublic
       ELSE userFiles[f].IsPublic

\* Preload("FileData"): the MinIOKey of the file hash of user file f.
MinIOKeyOf(f) ==
    IF userFiles[f].FileHash \in DOMAIN fileHashes
    THEN fileHashes[userFiles[f].FileHash].MinIOKey
    ELSE ""

\* One query, then the URL: the public URL for a public file, a presigned
\* URL of one minute for a private one.  Any error of the query is "file not
\* found or access denied".  (The download_count the call then increments
\* in a goroutine is not part of the state here.)
GetFileDownloadURL(userID, f) ==
    /\ LET answer(status, err, url) ==
               [Resp("download", status, f, "") EXCEPT
                   !.user = userID, !.err = err, !.url = url]
       IN \/ /\ ServedTo(userID, f)
             /\ userFiles[f].IsPublic
             /\ ret' = answer("ok", "", GetPublicFileURL(MinIOKeyOf(f)))
          \/ /\ ServedTo(userID, f)
             /\ ~userFiles[f].IsPublic
             /\ \/ ret' = answer("ok", "", GetFileURL(MinIOKeyOf(f), "time.Minute"))
                \/ ret' = answer("error", "storage", NoURL)
          \/ ret' = answer("error", "notfound", NoURL)
    /\ UNCHANGED <<ledgers, store, nextId, req, cleanup, urlCount, stats>>

\* ------------------------------------------ UserService.GetStorageStatistics
RECURSIVE SumSet(_)
SumSet(S) == IF S = {} THEN 0 ELSE LET x == CHOOSE y \in S : TRUE IN x + SumSet(S \ {x})

\* SUM(size) over the rows of the join of the user_files rows F with
\* file_hashes: one term per user file whose hash has a record.
RECURSIVE SumJoin(_)
SumJoin(F) ==
    IF F = {} THEN 0
    ELSE LET f == CHOOSE y \in F : TRUE
         IN (IF userFiles[f].FileHash \in DOMAIN fileHashes
             THEN fileHashes[userFiles[f].FileHash].Size ELSE 0) + SumJoin(F \ {f})

OwnedBy(u) == {f \in DOMAIN userFiles : userFiles[f].UserID = u}

\* COALESCE(SUM(DISTINCT file_hashes.size), 0) over the join for the user:
\* the sum of the distinct size values.
DeduplicatedStorage(u) ==
    SumSet({fileHashes[userFiles[f].FileHash].Size :
              f \in {g \in OwnedBy(u) : userFiles[g].FileHash \in DOMAIN fileHashes}})

Max0(n) == IF n < 0 THEN 0 ELSE n

StorageStatistics(u) ==
    LET fileCount == Cardinality(OwnedBy(u))
        unique == Cardinality({userFiles[f].FileHash : f \in OwnedBy(u)})
    IN [user |-> u,
        FileCount |-> fileCount,
        TotalStorage |-> DeduplicatedStorage(u),
        OriginalStorage |-> SumJoin(OwnedBy(u)),
        DuplicateCount |-> Max0(fileCount - unique),
        SavingsBytes |-> Max0(SumJoin(OwnedBy(u)) - DeduplicatedStorage(u))]

GetStorageStatistics(u) ==
    /\ \/ /\ stats' = StorageStatistics(u)
          /\ ret' = Resp("stats", "ok", 0, "")
       \/ /\ stats' = NoStats
          /\ ret' = [Resp("stats", "error", 0, "") EXCEPT !.err = "db"]
    /\ UNCHANGED <<ledgers, store, nextId, req, cleanup, urlCount>>

\* ------------------------------------------------------------------ history
\* A step of the server adds nothing to the history and leaves the browser's
\* hook alone.
NoHistory == UNCHANGED <<history, upload>>

\* What the step just taken adds to the history of uploads.
UploadHistory ==
    /\ okUploads' =
          IF /\ ret'.status = "ok"
             /\ \/ ret'.op = "complete"
                \/ ret'.op = "auth" /\ ret'.isDuplicate
          THEN [okUploads EXCEPT ![ret'.hash] = @ + 1]
          ELSE okUploads
    /\ UNCHANGED <<okDeletes, attempted, failed, firstLink, declared, toggled, upload>>

\* What the step just taken adds to the history of deletes.
DeleteHistory ==
    /\ okDeletes' =
          IF ret'.status = "ok" /\ ret'.op = "delete"
          THEN [okDeletes EXCEPT ![ret'.hash] = @ + 1]
          ELSE okDeletes
    /\ attempted' = attempted \cup
          {req[s].key : s \in {x \in Slots : /\ req[x].op = "delete"
                                             /\ req[x].pc = "blobDel"
                                             /\ req'[x].pc = "delHash"}}
    /\ failed' = IF ret'.status = "error"
                 THEN failed \cup {<<ret'.op, ret'.err>>}
                 ELSE failed
    /\ UNCHANGED <<okUploads, firstLink, declared, toggled, upload>>

\* What the step just taken adds to the history of share links.
LinkHistory ==
    /\ firstLink' =
          IF ret'.op = "toggle" /\ ret'.shareLink # "" /\ firstLink[ret'.fid] = ""
          THEN [firstLink EXCEPT ![ret'.fid] = ret'.shareLink]
          ELSE firstLink
    /\ UNCHANGED <<okUploads, okDeletes, attempted, failed, declared, toggled, upload>>

\* ------------------------------------------------------------ specifications
\* Every request of the upload / delete lifecycle, running concurrently.
Next ==
    \/ \E s \in Slots, u \in Users, h \in Hashes : StartAuthorize(s, u, h) /\ NoHistory
    \/ \E s \in Slots : AuthCreateUserFile(s) /\ NoHistory
    \/ \E s \in Slots : AuthIncrementRef(s) /\ NoHistory
    \/ \E s \in Slots : AuthCommit(s) /\ NoHistory
    \/ \E h \in Hashes : ClientPut(h) /\ NoHistory
    \/ \E s \in Slots, u \in Users, h \in Hashes : StartComplete(s, u, h) /\ NoHistory
    \/ \E s \in Slots : CompleteLookup(s) /\ NoHistory
    \/ \E s \in Slots : CompleteCreateHash(s) /\ NoHistory
    \/ \E s \in Slots : CompleteIncrementRef(s) /\ NoHistory
    \/ \E s \in Slots : CompleteCreateUserFile(s) /\ NoHistory
    \/ \E s \in Slots : CompleteCommit(s) /\ NoHistory
    \/ \E k \in Hashes : AsyncDeleteFile(k) /\ NoHistory
    \/ \E s \in Slots, u \in Users, f \in FileIds : StartDelete(s, u, f) /\ NoHistory
    \/ \E s \in Slots : DeleteGetHash(s) /\ NoHistory
    \/ \E s \in Slots : DeleteUserFileRow(s) /\ NoHistory
    \/ \E s \in Slots : DeleteCount(s) /\ NoHistory
    \/ \E s \in Slots : DeleteBlob(s) /\ NoHistory
    \/ \E s \in Slots : DeleteHashRow(s) /\ NoHistory
    \/ \E s \in Slots : DeleteSetRef(s) /\ NoHistory
    \/ \E s \in Slots : DeleteCommit(s) /\ NoHistory

Spec == Init /\ [][Next]_vars

\* ------------------------------------------------------- sequential uploads
\* Uploads of one content, one after another: the next upload is authorized
\* once the one before it is over, and an upload is completed until its
\* record stands.
UploadNext ==
    \/ \E s \in Slots, u \in Users, h \in Hashes :
          /\ Quiescent
          /\ urlCount[h] = 0 \/ h \in DOMAIN fileHashes
          /\ StartAuthorize(s, u, h)
          /\ UploadHistory
    \/ \E s \in Slots : AuthCreateUserFile(s) /\ UploadHistory
    \/ \E s \in Slots : AuthIncrementRef(s) /\ UploadHistory
    \/ \E s \in Slots : AuthCommit(s) /\ UploadHistory
    \/ \E h \in Hashes : ClientPut(h) /\ UploadHistory
    \/ \E s \in Slots, u \in Users, h \in Hashes :
          /\ Quiescent
          /\ h \notin DOMAIN fileHashes
          /\ StartComplete(s, u, h)
          /\ UploadHistory
    \/ \E s \in Slots : CompleteLookup(s) /\ UploadHistory
    \/ \E s \in Slots : CompleteCreateHash(s) /\ UploadHistory
    \/ \E s \in Slots : CompleteCreateUserFile(s) /\ UploadHistory
    \/ \E s \in Slots : CompleteCommit(s) /\ UploadHistory

UploadSpec == Init /\ [][UploadNext]_vars

\* One upload of a content, whose completion call the client repeats with the
\* same object key and hash, one call after the other and after the goroutine
\* of the call before.
RetryNext ==
    \/ \E s \in Slots, u \in Users, h \in Hashes :
          /\ Quiescent
          /\ urlCount[h] = 0
          /\ StartAuthorize(s, u, h)
          /\ UploadHistory
    \/ \E h \in Hashes : h \notin DOMAIN fileHashes /\ ClientPut(h) /\ UploadHistory
    \/ \E s \in Slots, u \in Users, h \in Hashes :
          /\ Quiescent
          /\ StartComplete(s, u, h)
          /\ UploadHistory
    \/ \E s \in Slots : CompleteLookup(s) /\ UploadHistory
    \/ \E s \in Slots : CompleteCreateHash(s) /\ UploadHistory
    \/ \E s \in Slots : CompleteIncrementRef(s) /\ UploadHistory
    \/ \E s \in Slots : CompleteCreateUserFile(s) /\ UploadHistory
    \/ \E s \in Slots : CompleteCommit(s) /\ UploadHistory
    \/ \E h \in Hashes : AsyncDeleteFile(h) /\ UploadHistory

RetrySpec == Init /\ [][RetryNext]_vars

\* ------------------------------------------------------------------ deletes
\* n user files of one content, uploaded by any mix of users: reference
\* count n, the blob in the bucket.
InitUploaded ==
    /\ \E n \in 1..MaxFiles, owner \in [FileIds -> Users] :
          /\ userFiles = [f \in 1..n |-> NewUserFile(owner[f], "h1")]
          /\ fileHashes = [h \in {"h1"} |->
                             [Size |-> ContentSize(h), ReferenceCount |-> n,
                              MinIOKey |-> h]]
          /\ nextId = n + 1
    /\ shareLinks = EmptyTable
    /\ blobs = [h \in {"h1"} |-> ContentSize(h)]
    /\ tags = {}
    /\ urlCount = [h \in Hashes |-> 1]
    /\ InitIdle

\* Deletes one after another.
DeleteNext ==
    \/ \E s \in Slots, u \in Users, f \in FileIds :
          Quiescent /\ StartDelete(s, u, f) /\ DeleteHistory
    \/ \E s \in Slots : DeleteGetHash(s) /\ DeleteHistory
    \/ \E s \in Slots : DeleteUserFileRow(s) /\ DeleteHistory
    \/ \E s \in Slots : DeleteCount(s) /\ DeleteHistory
    \/ \E s \in Slots : DeleteBlob(s) /\ DeleteHistory
    \/ \E s \in Slots : DeleteHashRow(s) /\ DeleteHistory
    \/ \E s \in Slots : DeleteSetRef(s) /\ DeleteHistory
    \/ \E s \in Slots : DeleteCommit(s) /\ DeleteHistory

DeleteSpec == InitUploaded /\ [][DeleteNext]_vars

\* n user files of one content whose stored reference count has drifted from
\* n, as interleaved requests leave it.
InitDrifted ==
    /\ \E n \in 1..MaxFiles, c \in 0..(MaxFiles + 1), owner \in [FileIds -> Users] :
          /\ c # n
          /\ userFiles = [f \in 1..n |-> NewUserFile(owner[f], "h1")]
          /\ fileHashes = [h \in {"h1"} |->
                             [Size |-> ContentSize(h), ReferenceCount |-> c,
                              MinIOKey |-> h]]
          /\ nextId = n + 1
    /\ shareLinks = EmptyTable
    /\ blobs = [h \in {"h1"} |-> ContentSize(h)]
    /\ tags = {}
    /\ urlCount = [h \in Hashes |-> 1]
    /\ InitIdle

\* Deletes one after another, from a drifted count.
DriftSpec == InitDrifted /\ [][DeleteNext]_vars

\* Deletes running concurrently.
ConcurrentDeleteNext ==
    \/ \E s \in Slots, u \in Users, f \in FileIds : StartDelete(s, u, f) /\ DeleteHistory
    \/ \E s \in Slots : DeleteGetHash(s) /\ DeleteHistory
    \/ \E s \in Slots : DeleteUserFileRow(s) /\ DeleteHistory
    \/ \E s \in Slots : DeleteCount(s) /\ DeleteHistory
    \/ \E s \in Slots : DeleteBlob(s) /\ DeleteHistory
    \/ \E s \in Slots : DeleteHashRow(s) /\ DeleteHistory
    \/ \E s \in Slots : DeleteSetRef(s) /\ DeleteHistory
    \/ \E s \in Slots : DeleteCommit(s) /\ DeleteHistory

ConcurrentDeleteSpec == InitUploaded /\ [][ConcurrentDeleteNext]_vars

\* Deletes running concurrently, from a drifted count.
ConcurrentDriftSpec == InitDrifted /\ [][ConcurrentDeleteNext]_vars

\* ------------------------------------------------------------------ toggles
\* Visibility toggles one after another on uploaded files.
ToggleNext ==
    \/ \E s \in Slots, u \in Users, f \in FileIds :
          Quiescent /\ StartToggle(s, u, f) /\ LinkHistory
    \/ \E s \in Slots : ToggleUpdate(s) /\ LinkHistory
    \/ \E s \in Slots : ToggleTag(s) /\ LinkHistory
    \/ \E s \in Slots : ToggleCommit(s) /\ LinkHistory
    \/ \E s \in Slots : ToggleList(s) /\ LinkHistory
    \/ \E s \in Slots : ToggleShare(s) /\ LinkHistory

ToggleSpec == InitUploaded /\ [][ToggleNext]_vars

\* One uploaded file, of any owner.
InitOneFile == InitUploaded /\ Cardinality(DOMAIN userFiles) = 1

\* TogglePublic and GetShareLink requests running concurrently on the one
\* file.
ShareNext ==
    \/ \E s \in Slots, u \in Users, f \in FileIds : StartToggle(s, u, f) /\ NoHistory
    \/ \E s \in Slots : ToggleUpdate(s) /\ NoHistory
    \/ \E s \in Slots : ToggleTag(s) /\ NoHistory
    \/ \E s \in Slots : ToggleCommit(s) /\ NoHistory
    \/ \E s \in Slots : ToggleList(s) /\ NoHistory
    \/ \E s \in Slots : ToggleShare(s) /\ NoHistory
    \/ \E s \in Slots, u \in Users, f \in FileIds : StartGetShareLink(s, u, f) /\ NoHistory
    \/ \E s \in Slots : GetShareLinkCreate(s) /\ NoHistory

ShareSpec == InitOneFile /\ [][ShareNext]_vars

\* What the step just taken adds to the parity of the successful toggles: a
\* ToggleFilePublic call succeeds when its commit does.
ToggleHistory ==
    /\ toggled' = [f \in FileIds |->
                     IF \E s \in Slots : /\ req[s].op = "toggle"
                                         /\ req[s].pc = "commit"
                                         /\ req[s].fid = f
                                         /\ req'[s].pc = "list"
                     THEN ~toggled[f]
                     ELSE toggled[f]]
    /\ UNCHANGED <<okUploads, okDeletes, attempted, failed, firstLink, declared, upload>>

\* TogglePublic requests running concurrently on the one file.
ConcurrentToggleNext ==
    \/ \E s \in Slots, u \in Users, f \in FileIds : StartToggle(s, u, f) /\ ToggleHistory
    \/ \E s \in Slots : ToggleUpdate(s) /\ ToggleHistory
    \/ \E s \in Slots : ToggleTag(s) /\ ToggleHistory
    \/ \E s \in Slots : ToggleCommit(s) /\ ToggleHistory
    \/ \E s \in Slots : ToggleList(s) /\ ToggleHistory
    \/ \E s \in Slots : ToggleShare(s) /\ ToggleHistory

ConcurrentToggleSpec == InitOneFile /\ [][ConcurrentToggleNext]_vars

\* Visibility toggles and deletes, one request after another, on uploaded
\* files.
ShareDeleteNext ==
    \/ \E s \in Slots, u \in Users, f \in FileIds :
          Quiescent /\ StartToggle(s, u, f) /\ NoHistory
    \/ \E s \in Slots : ToggleUpdate(s) /\ NoHistory
    \/ \E s \in Slots : ToggleTag(s) /\ NoHistory
    \/ \E s \in Slots : ToggleCommit(s) /\ NoHistory
    \/ \E s \in Slots : ToggleList(s) /\ NoHistory
    \/ \E s \in Slots : ToggleShare(s) /\ NoHistory
    \/ \E s \in Slots, u \in Users, f \in FileIds :
          Quiescent /\ StartDelete(s, u, f) /\ NoHistory
    \/ \E s \in Slots : DeleteGetHash(s) /\ NoHistory
    \/ \E s \in Slots : DeleteUserFileRow(s) /\ NoHistory
    \/ \E s \in Slots : DeleteCount(s) /\ NoHistory
    \/ \E s \in Slots : DeleteBlob(s) /\ NoHistory
    \/ \E s \in Slots : DeleteHashRow(s) /\ NoHistory
    \/ \E s \in Slots : DeleteSetRef(s) /\ NoHistory
    \/ \E s \in Slots : DeleteCommit(s) /\ NoHistory

ShareDeleteSpec == InitUploaded /\ [][ShareDeleteNext]_vars

\* ---------------------------------------------------------------- downloads
\* User files of one content, of any owners and any visibility.
InitDownload ==
    /\ \E n \in 1..MaxFiles, owner \in [FileIds -> Users],
          public \in [FileIds -> BOOLEAN] :
          /\ userFiles = [f \in 1..n |->
                [NewUserFile(owner[f], "h1") EXCEPT !.IsPublic = public[f]]]
          /\ fileHashes = [h \in {"h1"} |->
                             [Size |-> ContentSize(h), ReferenceCount |-> n,
                              MinIOKey |-> h]]
          /\ nextId = n + 1
          /\ tags = IF \E f \in 1..n : public[f] THEN {"h1"} ELSE {}
    /\ shareLinks = EmptyTable
    /\ blobs = [h \in {"h1"} |-> ContentSize(h)]
    /\ urlCount = [h \in Hashes |-> 1]
    /\ InitIdle

DownloadNext ==
    \E userID \in Callers, f \in FileIds : GetFileDownloadURL(userID, f) /\ NoHistory

DownloadSpec == InitDownload /\ [][DownloadNext]_vars

\* --------------------------------------------------------------- statistics
\* Any ledger: user files of any owners and contents, a record of any size
\* for each content referenced, counting its references.
InitLedger ==
    /\ \E files \in SUBSET FileIds, owner \in [FileIds -> Users],
          hashOf \in [FileIds -> AllHashes], size \in [AllHashes -> Sizes] :
          /\ userFiles = [f \in files |-> NewUserFile(owner[f], hashOf[f])]
          /\ fileHashes = [h \in {hashOf[f] : f \in files} |->
                [Size |-> size[h],
                 ReferenceCount |-> Cardinality({f \in files : hashOf[f] = h}),
                 MinIOKey |-> h]]
          /\ blobs = [h \in {hashOf[f] : f \in files} |-> size[h]]
    /\ shareLinks = EmptyTable
    /\ tags = {}
    /\ nextId = MaxFiles + 1
    /\ urlCount = [h \in Hashes |-> 1]
    /\ InitIdle

StatsNext == \E u \in Users : GetStorageStatistics(u) /\ NoHistory

StatsSpec == InitLedger /\ [][StatsNext]_vars

\* -------------------------------------------------------------------- usage
\* A ledger of files of the content h2 (of any size), the content h1 not yet
\* uploaded.
InitUsage ==
    /\ \E n \in 0..(MaxFiles - 2), owner \in [FileIds -> Users], size \in Sizes :
          /\ userFiles = [f \in 1..n |-> NewUserFile(owner[f], "h2")]
          /\ fileHashes = [h \in (IF n = 0 THEN {} ELSE {"h2"}) |->
                             [Size |-> size, ReferenceCount |-> n, MinIOKey |-> h]]
          /\ blobs = [h \in (IF n = 0 THEN {} ELSE {"h2"}) |-> size]
          /\ nextId = n + 1
    /\ shareLinks = EmptyTable
    /\ tags = {}
    /\ urlCount = [h \in Hashes |-> 0]
    /\ InitIdle

\* Uploads of h1 one after another, the statistics read in between.
UsageNext ==
    \/ UploadNext
    \/ \E u \in Users : Quiescent /\ GetStorageStatistics(u) /\ NoHistory

UsageSpec == InitUsage /\ [][UsageNext]_vars

\* -------------------------------------------------------------------- quota
\* users.storage_used: 0 by default and as GetOrCreateUser creates the user;
\* UserService.UpdateStorageUsed, its only writer, has no caller.
StorageUsed(u) == 0

\* UserService.CheckStorageQuota: nil unless
\* user.StorageUsed + additionalSize > user.StorageQuota.
CheckStorageQuota(u, additionalSize) ==
    ~(StorageUsed(u) + additionalSize > StorageQuota)

\* FileHandler.GenerateUploadURL: the quota check on the declared size (here
\* the true size of the content), 402 when it fails, else
\* GeneratePresignedUploadURL.
GenerateUploadURL(s, u, h) ==
    \/ /\ CheckStorageQuota(u, ContentSize(h))
       /\ StartAuthorize(s, u, h)
    \/ /\ ~CheckStorageQuota(u, ContentSize(h))
       /\ CanStart(s)
       /\ Return(s, [Resp("auth", "error", 0, h) EXCEPT !.err = "quota"])
       /\ UNCHANGED <<ledgers, store, nextId, cleanup, urlCount, stats>>

\* The same for a client that declares any size for the file it is to upload.
GenerateUploadURLOfSize(s, u, h, size) ==
    \/ /\ CheckStorageQuota(u, size)
       /\ StartAuthorize(s, u, h)
    \/ /\ ~CheckStorageQuota(u, size)
       /\ CanStart(s)
       /\ Return(s, [Resp("auth", "error", 0, h) EXCEPT !.err = "quota"])
       /\ UNCHANGED <<ledgers, store, nextId, cleanup, urlCount, stats>>

\* What an authorization that returned an upload URL adds to the history of
\* declared sizes.
DeclareHistory(h, size) ==
    /\ declared' = IF ret'.op = "auth" /\ ret'.status = "ok" /\ ret'.uploadURL
                   THEN [declared EXCEPT ![h] = @ \cup {size}]
                   ELSE declared
    /\ UNCHANGED <<okUploads, okDeletes, attempted, failed, firstLink, toggled, upload>>

\* The server after start-up, contents h1 and h2 yet to be uploaded.
InitQuota ==
    /\ fileHashes = EmptyTable
    /\ userFiles = EmptyTable
    /\ shareLinks = EmptyTable
    /\ blobs = EmptyTable
    /\ tags = {}
    /\ nextId = 1
    /\ urlCount = [h \in AllHashes |-> 0]
    /\ InitIdle

\* Single-file uploads through the quota gate, one after another.
QuotaNext ==
    \/ \E s \in Slots, u \in Users, h \in AllHashes :
          /\ Quiescent
          /\ urlCount[h] = 0 \/ h \in DOMAIN fileHashes
          /\ GenerateUploadURL(s, u, h)
          /\ NoHistory
    \/ \E s \in Slots : AuthCreateUserFile(s) /\ NoHistory
    \/ \E s \in Slots : AuthIncrementRef(s) /\ NoHistory
    \/ \E s \in Slots : AuthCommit(s) /\ NoHistory
    \/ \E h \in AllHashes : ClientPut(h) /\ NoHistory
    \/ \E s \in Slots, u \in Users, h \in AllHashes :
          /\ Quiescent
          /\ h \notin DOMAIN fileHashes
          /\ StartComplete(s, u, h)
          /\ NoHistory
    \/ \E s \in Slots : CompleteLookup(s) /\ NoHistory
    \/ \E s \in Slots : CompleteCreateHash(s) /\ NoHistory
    \/ \E s \in Slots : CompleteCreateUserFile(s) /\ NoHistory
    \/ \E s \in Slots : CompleteCommit(s) /\ NoHistory

QuotaSpec == InitQuota /\ [][QuotaNext]_vars

\* Single-file uploads one after another, the client declaring any size at
\* authorization and then putting the file.
SizeNext ==
    \/ \E s \in Slots, u \in Users, h \in AllHashes, size \in Sizes :
          /\ Quiescent
          /\ urlCount[h] = 0 \/ h \in DOMAIN fileHashes
          /\ GenerateUploadURLOfSize(s, u, h, size)
          /\ DeclareHistory(h, size)
    \/ \E s \in Slots : AuthCreateUserFile(s) /\ NoHistory
    \/ \E s \in Slots : AuthIncrementRef(s) /\ NoHistory
    \/ \E s \in Slots : AuthCommit(s) /\ NoHistory
    \/ \E h \in AllHashes : ClientPut(h) /\ NoHistory
    \/ \E s \in Slots, u \in Users, h \in AllHashes :
          /\ Quiescent
          /\ h \notin DOMAIN fileHashes
          /\ StartComplete(s, u, h)
          /\ NoHistory
    \/ \E s \in Slots : CompleteLookup(s) /\ NoHistory
    \/ \E s \in Slots : CompleteCreateHash(s) /\ NoHistory
    \/ \E s \in Slots : CompleteCreateUserFile(s) /\ NoHistory
    \/ \E s \in Slots : CompleteCommit(s) /\ NoHistory

SizeSpec == InitQuota /\ [][SizeNext]_vars

\* -------------------------------------------- FileService.BatchPrepareUpload
\* The requests of a batch: one to MaxBatch files, each with the hash and the
\* size its client declares.
BatchFileRequest == [FileHash : AllHashes, Size : Sizes]
BatchRequests == UNION {[1..n -> BatchFileRequest] : n \in 1..MaxBatch}

\* What can go wrong for one file of the batch: nothing, a failing statement
\* (tx.Create, the Update or GetUploadURL), or a failing tx.Commit(), whose
\* error is dropped.
BatchFaults == {"none", "error", "commit"}

\* totalSizeRequired: the declared sizes of the files whose hash is not in
\* existingHashMap.
RECURSIVE TotalSizeRequired(_, _)
TotalSizeRequired(files, i) ==
    IF i > Len(files) THEN 0
    ELSE (IF files[i].FileHash \in DOMAIN fileHashes THEN 0 ELSE files[i].Size)
         + TotalSizeRequired(files, i + 1)

\* currentUsage: COALESCE(SUM(file_hashes.size), 0) over the join with the
\* user_files of the user.
CurrentUsage(userID) == SumJoin(OwnedBy(userID))

\* quotaAvailable: checked only when totalSizeRequired > 0, against maxStorage.
QuotaAvailable(userID, files) ==
    LET total == TotalSizeRequired(files, 1) IN
    ~(total > 0 /\ CurrentUsage(userID) + total > maxStorage)

\* uploadID := uuid.New().String(): the IDs a batch can draw, and the ones
\* that are fresh, their key "uploads/<user>/<uploadID>" being in no use.
UploadIds == {ToString(i) : i \in 1..MaxBatch}

UploadKey(userID, uploadID) == "uploads/" \o userID \o "/" \o uploadID

FreshUploadIds(userID) ==
    {x \in UploadIds :
        /\ UploadKey(userID, x) \notin DOMAIN blobs \cup cleanup
        /\ \A h \in DOMAIN fileHashes : fileHashes[h].MinIOKey # UploadKey(userID, x)}

\* The loop over the files, from file i on: acc holds the tables, the next
\* user file ID and the responses so far.  A duplicate (by the lookup made
\* before the loop) gets its user file and the count incremented in a
\* transaction of its own; a new content gets "quota_exceeded" or its URL.
RECURSIVE BatchLoop(_, _, _, _, _)
BatchLoop(i, acc, userID, files, fault) ==
    IF i > Len(files) THEN acc
    ELSE LET h == files[i].FileHash
             reply(status, uploadID) ==
                Append(acc.out, [FileHash |-> h, Size |-> files[i].Size,
                                 Status |-> status, UploadID |-> uploadID])
             answer(status) == reply(status, "")
             uploadID == CHOOSE x \in FreshUploadIds(userID) :
                            \A j \in 1..Len(acc.out) : acc.out[j].UploadID # x
             next ==
                IF h \in DOMAIN fileHashes
                THEN IF fault[i] = "error" THEN [acc EXCEPT !.out = answer("error")]
                     ELSE IF fault[i] = "commit"
                          THEN [acc EXCEPT !.out = answer("duplicate")]
                     ELSE [uf |-> Put(acc.uf, acc.id, NewUserFile(userID, h)),
                           fh |-> [acc.fh EXCEPT ![h].ReferenceCount = @ + 1],
                           id |-> acc.id + 1,
                           out |-> answer("duplicate")]
                ELSE IF ~QuotaAvailable(userID, files)
                     THEN [acc EXCEPT !.out = answer("quota_exceeded")]
                ELSE IF fault[i] = "error" THEN [acc EXCEPT !.out = answer("error")]
                ELSE [acc EXCEPT !.out = reply("upload_required", uploadID)]
         IN BatchLoop(i + 1, next, userID, files, fault)

BatchPrepareUpload(userID, files, fault) ==
    LET done == BatchLoop(1, [uf |-> userFiles, fh |-> fileHashes, id |-> nextId,
                              out |-> <<>>], userID, files, fault)
    IN /\ nextId + Len(files) <= MaxFiles + 1
       /\ Cardinality(FreshUploadIds(userID)) >= Len(files)
       /\ userFiles' = done.uf
       /\ fileHashes' = done.fh
       /\ nextId' = done.id
       /\ ret' = [Resp("batch", "ok", 0, "") EXCEPT
                     !.user = userID,
                     !.Files = done.out,
                     !.TotalSizeRequired = TotalSizeRequired(files, 1),
                     !.QuotaAvailable = QuotaAvailable(userID, files)]
       /\ UNCHANGED <<shareLinks, store, req, cleanup, urlCount, stats>>

\* Batches one after another, on a ledger that holds files already.
BatchNext ==
    \E userID \in Users, files \in BatchRequests, fault \in [1..MaxBatch -> BatchFaults] :
        BatchPrepareUpload(userID, files, fault) /\ NoHistory

BatchSpec == InitUsage /\ [][BatchNext]_vars

\* --------------------------------------------- the client of a batch upload
\* useFileUpload.processFiles, phase 4: the file of item i of the response in
\* hand is PUT to its presigned URL, whose key is the upload key.
BatchClientPut(i) ==
    /\ ret.op = "batch"
    /\ i \in 1..Len(ret.Files)
    /\ ret.Files[i].Status = "upload_required"
    /\ LET k == UploadKey(ret.user, ret.Files[i].UploadID) IN
       /\ k \notin DOMAIN blobs
       /\ blobs' = Put(blobs, k, ContentSize(ret.Files[i].FileHash))
       /\ tags' = tags \ {k}
    /\ UNCHANGED <<ledgers, nextId, req, cleanup, urlCount, stats, ret>>

\* ------------------------------------------- FileService.BatchCompleteUpload
\* One upload of the loop: objectKey := "uploads/<userID>/<upload.UploadID>"
\* and CompleteFileUpload(userID, objectKey, ..., upload.FileHash), which
\* begins with GetFileInfo.  The client names the hash of the file it put.
StartBatchComplete(s, u, uploadID, h) ==
    /\ CanStart(s)
    /\ nextId <= MaxFiles
    /\ LET k == UploadKey(u, uploadID) IN
       \/ /\ k \in DOMAIN blobs
          /\ blobs[k] = ContentSize(h)
          /\ Continue(s, [IdleReq EXCEPT !.op = "complete", !.pc = "txLookup",
                                         !.user = u, !.hash = h, !.key = k,
                                         !.size = blobs[k], !.fid = nextId])
          /\ nextId' = nextId + 1
       \/ /\ k \notin DOMAIN blobs
          /\ Return(s, [Resp("complete", "error", 0, h) EXCEPT !.err = "storage"])
          /\ UNCHANGED nextId
    /\ UNCHANGED <<ledgers, store, cleanup, urlCount, stats>>

UploadKeys == {UploadKey(u, x) : u \in Users, x \in UploadIds}

\* Batch uploads from an empty ledger, one request after another: prepare,
\* the PUTs, the completions.
BatchUploadNext ==
    \/ \E userID \in Users, files \in BatchRequests,
          fault \in [1..MaxBatch -> BatchFaults] :
          Quiescent /\ BatchPrepareUpload(userID, files, fault) /\ NoHistory
    \/ \E i \in 1..MaxBatch : BatchClientPut(i) /\ NoHistory
    \/ \E s \in Slots, u \in Users, x \in UploadIds, h \in AllHashes :
          Quiescent /\ StartBatchComplete(s, u, x, h) /\ NoHistory
    \/ \E s \in Slots : CompleteLookup(s) /\ NoHistory
    \/ \E s \in Slots : CompleteCreateHash(s) /\ NoHistory
    \/ \E s \in Slots : CompleteIncrementRef(s) /\ NoHistory
    \/ \E s \in Slots : CompleteCreateUserFile(s) /\ NoHistory
    \/ \E s \in Slots : CompleteCommit(s) /\ NoHistory
    \/ \E k \in UploadKeys : AsyncDeleteFile(k) /\ NoHistory

BatchUploadSpec == InitQuota /\ [][BatchUploadNext]_vars

\* ------------------------------------------- useFileUpload.processFiles
\* The files handed to processFiles: the hash of the content, and whether
\* file.size > maxFileSize.
FileInputs == [hash : AllHashes, tooBig : BOOLEAN]

FileBatches ==
    UNION {[1..n -> FileInputs] : n \in 1..MaxBatch}

TerminalStatuses == {"completed", "failed", "duplicate", "quota_exceeded"}

\* fileEntries.find(entry => entry.sha256 === hash): the first match, 0 for
\* undefined.
FindBySha256(entries, h) ==
    IF \E k \in 1..Len(entries) : entries[k].sha256 = h
    THEN CHOOSE k \in 1..Len(entries) :
            /\ entries[k].sha256 = h
            /\ \A j \in 1..(k - 1) : entries[j].sha256 # h
    ELSE 0

\* updateFileStatus(fileEntry.id, {status}): the entry of uploadingFiles
\* changes, the object in the local array fileEntries does not.
UpdateFileStatus(entries, k, status) ==
    [entries EXCEPT ![k].status = status]

\* The next file of validFiles after entry k, 0 when there is none.
NextValid(entries, k) ==
    IF \E j \in (k + 1)..Len(entries) : entries[j].valid
    THEN CHOOSE j \in (k + 1)..Len(entries) :
            /\ entries[j].valid
            /\ \A x \in (k + 1)..(j - 1) : ~entries[x].valid
    ELSE 0

\* The catch block: every valid file whose local fileEntry.status is
\* 'pending', 'hashing' or 'preparing' is marked failed.
CatchBlock(entries) ==
    [k \in 1..Len(entries) |->
        IF entries[k].valid /\ entries[k].local \in {"pending", "hashing", "preparing"}
        THEN [entries[k] EXCEPT !.status = "failed"]
        ELSE entries[k]]

\* The entries with phase, index and uploads, all else of the model left alone.
SetUpload(phase, entries, i, toUpload) ==
    /\ upload' = [phase |-> phase, entries |-> entries, i |-> i,
                  toUpload |-> toUpload]
    /\ UNCHANGED <<ledgers, store, nextId, req, cleanup, urlCount, stats, ret,
                   history>>

\* processFiles(files) up to its first await: the entries are made, 'failed'
\* for a file over the size limit, and the first valid file is 'hashing'.
ProcessFiles(files) ==
    /\ upload.phase = "idle"
    /\ LET fileEntries ==
              [k \in 1..Len(files) |->
                  [hash |-> files[k].hash, valid |-> ~files[k].tooBig,
                   status |-> IF files[k].tooBig THEN "failed" ELSE "pending",
                   local |-> IF files[k].tooBig THEN "failed" ELSE "pending",
                   sha256 |-> ""]]
           first == NextValid(fileEntries, 0)
       IN IF first = 0
          THEN SetUpload("done", fileEntries, 0, <<>>)
          ELSE SetUpload("hashing", UpdateFileStatus(fileEntries, first, "hashing"),
                         first, <<>>)

\* Phase 1: calculateSHA256 of file i resolves, the entry is 'preparing' with
\* its hash, and the next valid file is 'hashing', or batchPrepareUpload is
\* called; or calculateSHA256 rejects.
HashDone ==
    /\ upload.phase = "hashing"
    /\ \/ LET hashed == [upload.entries EXCEPT
                            ![upload.i].status = "preparing",
                            ![upload.i].sha256 = upload.entries[upload.i].hash]
              next == NextValid(hashed, upload.i)
          IN IF next = 0
             THEN SetUpload("prepare", hashed, 0, <<>>)
             ELSE SetUpload("hashing", UpdateFileStatus(hashed, next, "hashing"),
                            next, <<>>)
       \/ SetUpload("done", CatchBlock(upload.entries), 0, <<>>)

\* batchRequests: the hashes of the valid files, in order.
RECURSIVE BatchRequestsOf(_, _)
BatchRequestsOf(entries, k) ==
    IF k > Len(entries) THEN <<>>
    ELSE (IF entries[k].valid THEN <<entries[k].sha256>> ELSE <<>>)
         \o BatchRequestsOf(entries, k + 1)

\* What FileService.BatchPrepareUpload can answer to the requests: one item
\* per file, in order; a file whose hash is stored is 'duplicate' or 'error',
\* another one 'quota_exceeded' when the quota does not suffice, else
\* 'upload_required' with its upload_id and URL, or 'error'.
PrepareResponses(requests) ==
    {r \in [1..Len(requests) -> {"duplicate", "quota_exceeded", "upload_required", "error"}] :
        \E stored \in SUBSET AllHashes, quotaAvailable \in BOOLEAN :
           \A k \in 1..Len(requests) :
              IF requests[k] \in stored THEN r[k] \in {"duplicate", "error"}
              ELSE IF ~quotaAvailable THEN r[k] = "quota_exceeded"
              ELSE r[k] \in {"upload_required", "error"}}

\* Phase 3, from response item k on: the entry found by the hash of the item
\* takes the status of the item; acc holds the entries and filesToUpload.
RECURSIVE Phase3(_, _, _, _)
Phase3(acc, requests, r, k) ==
    IF k > Len(requests) THEN acc
    ELSE LET fileEntry == FindBySha256(acc.entries, requests[k])
             status == IF r[k] = "upload_required" THEN "uploading"
                       ELSE IF r[k] = "error" THEN "failed"
                       ELSE r[k]
             next ==
                IF fileEntry = 0 THEN acc
                ELSE [entries |-> UpdateFileStatus(acc.entries, fileEntry, status),
                      toUpload |->
                         IF r[k] = "upload_required"
                         THEN Append(acc.toUpload,
                                     [fileEntry |-> fileEntry,
                                      uploadId |-> ToString(k),
                                      result |-> "pending"])
                         ELSE acc.toUpload]
         IN Phase3(next, requests, r, k + 1)

\* Phase 2 and 3: batchPrepareUpload resolves and the statuses are updated;
\* with nothing to upload processFiles returns.  Or the call rejects.
PrepareDone ==
    /\ upload.phase = "prepare"
    /\ LET requests == BatchRequestsOf(upload.entries, 1) IN
       \/ \E r \in PrepareResponses(requests) :
             LET done == Phase3([entries |-> upload.entries, toUpload |-> <<>>],
                                requests, r, 1)
             IN SetUpload(IF done.toUpload = <<>> THEN "done" ELSE "upload",
                          done.entries, 0, done.toUpload)
       \/ SetUpload("done", CatchBlock(upload.entries), 0, <<>>)

\* completedUploads: the uploads that succeeded, in order.
RECURSIVE CompletedUploads(_, _)
CompletedUploads(toUpload, k) ==
    IF k > Len(toUpload) THEN <<>>
    ELSE (IF toUpload[k].result = "ok" THEN <<toUpload[k]>> ELSE <<>>)
         \o CompletedUploads(toUpload, k + 1)

\* Phase 4: uploadFileToMinio of upload j resolves, or rejects and the entry
\* is 'failed'.  When all are settled, batchCompleteUpload is called if any
\* has succeeded, else processFiles returns.
UploadFileToMinio(j) ==
    /\ upload.phase = "upload"
    /\ j \in 1..Len(upload.toUpload)
    /\ upload.toUpload[j].result = "pending"
    /\ \E result \in {"ok", "failed"} :
          LET toUpload == [upload.toUpload EXCEPT ![j].result = result]
              entries == IF result = "ok" THEN upload.entries
                         ELSE UpdateFileStatus(upload.entries,
                                               upload.toUpload[j].fileEntry, "failed")
              settled == \A k \in 1..Len(toUpload) : toUpload[k].result # "pending"
          IN SetUpload(IF ~settled THEN "upload"
                       ELSE IF CompletedUploads(toUpload, 1) = <<>> THEN "done"
                       ELSE "complete",
                       entries, 0, toUpload)

\* The loop over completedUploads, from upload k on: the entry found by the
\* hash of upload k is 'completed' when completed_files[k] is defined, n
\* being the length of completed_files.
RECURSIVE Phase5(_, _, _, _)
Phase5(entries, completedUploads, n, k) ==
    IF k > Len(completedUploads) THEN entries
    ELSE LET fileEntry ==
                FindBySha256(entries, entries[completedUploads[k].fileEntry].sha256)
         IN Phase5(IF fileEntry # 0 /\ k <= n
                   THEN UpdateFileStatus(entries, fileEntry, "completed")
                   ELSE entries,
                   completedUploads, n, k + 1)

\* Phase 5: batchCompleteUpload resolves with completed_files, which holds
\* one file per upload that FileService.BatchCompleteUpload completed without
\* error.  Or the catch block runs: the call rejects, or no upload was
\* completed, completed_files is the null of a nil slice and reading
\* completed_files[i] throws.
CompleteDone ==
    /\ upload.phase = "complete"
    /\ LET completedUploads == CompletedUploads(upload.toUpload, 1) IN
       \/ \E n \in 1..Len(completedUploads) :
             SetUpload("done", Phase5(upload.entries, completedUploads, n, 1),
                       0, upload.toUpload)
       \/ SetUpload("done", CatchBlock(upload.entries), 0, upload.toUpload)

\* One call of processFiles, from the files to its return.
ProcessFilesNext ==
    \/ \E files \in FileBatches : ProcessFiles(files)
    \/ HashDone
    \/ PrepareDone
    \/ \E j \in 1..MaxBatch : UploadFileToMinio(j)
    \/ CompleteDone

ProcessFilesSpec == InitQuota /\ [][ProcessFilesNext]_vars

\* =============================================================== properties
\* User file rows whose deletion is pending in an open transaction.
PendingDeletes == {req[s].ufw.id : s \in {x \in Slots : req[x].ufw.kind = "del"}}

\* C1: at every quiescent point, the reference_count of every file_hashes
\* record equals the number of live user_files rows with its hash, whatever
\* the interleaving of authorizations, completions and deletes.
RefCountEqualsLiveCount ==
    Quiescent =>
        \A h \in DOMAIN fileHashes :
            fileHashes[h].ReferenceCount = Cardinality(Refs(h))

\* C2: no step removes the object under the MinIO key of a file_hashes
\* record while a committed user_files row (other than one whose deletion
\* is pending) references that record.
BlobKeptWhileReferenced ==
    [][\A h \in DOMAIN fileHashes :
          (fileHashes[h].MinIOKey \in DOMAIN blobs
              /\ fileHashes[h].MinIOKey \notin DOMAIN blobs')
          => Refs(h) \ PendingDeletes = {}]_vars

\* C3: of two concurrent completions for a hash without a record, the one
\* that loses the race to create the record does not fail on the conflict
\* (it goes on as a duplicate).
CompleteLoserTakesDuplicatePath ==
    ~(ret.op = "complete" /\ ret.status = "error" /\ ret.err = "unique")

\* C4: once the deletes of all user files of a content have committed,
\* concurrently or not, the file_hashes record is gone and the deletion of
\* its object has been attempted.
LastDeletesRemoveRecord ==
    (Quiescent /\ Refs("h1") = {})
        => ("h1" \notin DOMAIN fileHashes /\ "h1" \in attempted)

\* C5: after N successful uploads of one content, one after another by any
\* users, there are N user files for the hash and one record with
\* reference count N, and a single upload URL was issued.
SequentialUploadsShareOneRecord ==
    Quiescent =>
        \A h \in Hashes :
            /\ urlCount[h] <= 1
            /\ Cardinality(Refs(h)) = okUploads[h]
            /\ IF okUploads[h] = 0
               THEN h \notin DOMAIN fileHashes
               ELSE /\ h \in DOMAIN fileHashes
                    /\ fileHashes[h].ReferenceCount = okUploads[h]

\* C5 witness: three uploads of the content are over, by both users.
ThreeUploadsDone ==
    /\ Quiescent
    /\ okUploads["h1"] = 3
    /\ {userFiles[f].UserID : f \in DOMAIN userFiles} = Users

\* C6: from n user files of a content with reference count n, after k
\* successful deletes one after another: k < n leaves the record with
\* reference count n - k and (no delete call having failed in the database)
\* the object in the bucket; k = n leaves no record, the deletion of the
\* object attempted.
SequentialDeletesRecount ==
    Quiescent =>
        LET n == nextId - 1
            k == okDeletes["h1"]
        IN /\ Cardinality(Refs("h1")) = n - k
           /\ k < n =>
                 /\ "h1" \in DOMAIN fileHashes
                 /\ fileHashes["h1"].ReferenceCount = n - k
                 /\ <<"delete", "db">> \notin failed => "h1" \in DOMAIN blobs
           /\ k = n =>
                 /\ "h1" \notin DOMAIN fileHashes
                 /\ "h1" \in attempted

\* C6 witness: all of three user files were deleted one by one.
AllThreeDeleted ==
    /\ Quiescent
    /\ nextId = 4
    /\ okDeletes["h1"] = 3
    /\ "h1" \notin DOMAIN blobs

\* C7: every committed user_files row references a hash that has a
\* file_hashes record.
OwnershipReferencesContent ==
    \A f \in DOMAIN userFiles : userFiles[f].FileHash \in DOMAIN fileHashes

\* C7 witness: a duplicate-path authorization found the record, a delete
\* of the last reference removed it, and the insert was refused.
AuthorizeLostRecord ==
    /\ ret.op = "auth" /\ ret.err = "fk"
    /\ ret.hash \notin DOMAIN fileHashes

\* C8: a duplicate-path authorization shows nothing of its user file before
\* it returns; returning success it has committed, in one step, that one
\* private user file of the caller and reference_count + 1, with
\* IsDuplicate and no upload URL; returning an error it has changed nothing.
AuthorizeDuplicateAtomic ==
    [][\A s \in Slots :
          req[s].op = "auth" =>
             /\ req[s].fid \notin DOMAIN userFiles
             /\ req'[s].op = "idle" =>
                   IF ret'.status = "ok"
                   THEN /\ ret'.isDuplicate /\ ~ret'.uploadURL
                        /\ req[s].hash \in DOMAIN fileHashes
                        /\ userFiles' = Put(userFiles, req[s].fid,
                                            [UserID |-> req[s].user,
                                             FileHash |-> req[s].hash,
                                             IsPublic |-> FALSE])
                        /\ fileHashes' = Put(fileHashes, req[s].hash,
                                             [fileHashes[req[s].hash] EXCEPT
                                                 !.ReferenceCount = @ + 1])
                   ELSE /\ userFiles' = userFiles
                        /\ fileHashes' = fileHashes]_vars

\* C8 witness: a duplicate-path authorization returned success while
\* another request was running.
DuplicateAuthorized ==
    /\ ret.op = "auth" /\ ret.status = "ok" /\ ret.isDuplicate
    /\ ret.fid \in DOMAIN userFiles
    /\ \E s \in Slots : req[s].op # "idle"

RECURSIVE SumRecords(_)
SumRecords(H) ==
    IF H = {} THEN 0
    ELSE LET h == CHOOSE x \in H : TRUE IN fileHashes[h].Size + SumRecords(H \ {h})

\* C10: the deduplicated bytes reported for a user are the sum of the sizes
\* of the distinct records the user's files reference, each hash once.
DeduplicatedCountsEachHashOnce ==
    stats.user # "" =>
        stats.TotalStorage =
            SumRecords({userFiles[f].FileHash : f \in OwnedBy(stats.user)})

\* C11: statistics read for a user before the user holds the content h1
\* and read again once the user holds it twice differ by the size of h1 in
\* deduplicated bytes, by twice the size in original bytes, and so by the
\* size in savings.
DuplicateUploadChargedOnce ==
    [][\A u \in Users :
          (/\ ret'.op = "stats" /\ ret'.status = "ok"
           /\ stats.user = u /\ stats'.user = u
           /\ stats.FileCount =
                 Cardinality({f \in OwnedBy(u) : userFiles[f].FileHash # "h1"})
           /\ Cardinality({f \in OwnedBy(u) : userFiles[f].FileHash = "h1"}) = 2)
          => /\ stats'.TotalStorage = stats.TotalStorage + ContentSize("h1")
             /\ stats'.OriginalStorage = stats.OriginalStorage + 2 * ContentSize("h1")
             /\ stats'.SavingsBytes = stats.SavingsBytes + ContentSize("h1")]_vars

\* C12: after uploads that each passed the quota gate, the deduplicated
\* usage of every user (the sizes of the distinct contents the user holds)
\* is within the user's storage quota.
UsageWithinQuota ==
    \A u \in Users :
        SumRecords({userFiles[f].FileHash : f \in OwnedBy(u)}) <= StorageQuota

\* C13: a DeleteUserFile call that returns an error has changed no ledger:
\* every step of a delete request other than its successful return, the
\* failing return included, leaves the user files, the file hashes and the
\* share links as they were.
DeleteErrorLeavesLedgers ==
    [][(\/ ret'.op = "delete" /\ ret'.status = "error"
        \/ \E s \in Slots : /\ req[s].op = "delete"
                            /\ req'[s] # req[s]
                            /\ ~(ret'.op = "delete" /\ ret'.status = "ok"))
       => UNCHANGED ledgers]_vars

\* A delete that got past the storage delete has failed, and the ledgers
\* are the ones the run began with.
DeleteFailedAfterBlob ==
    /\ ret.op = "delete" /\ ret.status = "error" /\ ret.err = "db"
    /\ "h1" \in attempted
    /\ okDeletes["h1"] = 0
    /\ "h1" \in DOMAIN fileHashes
    /\ fileHashes["h1"].ReferenceCount = Cardinality(Refs("h1"))
    /\ ret.fid \in Refs("h1")

BlobDeleteFailureIgnored ==
    [][\A s \in Slots :
          /\ (/\ req[s].op = "delete" /\ req[s].pc = "blobDel"
               /\ req'[s] # req[s])
             => /\ req'[s] = [req[s] EXCEPT !.pc = "delHash"]
                /\ ret' = NoResp
          /\ (/\ req[s].op = "delete" /\ req[s].pc = "commit"
               /\ req[s].remainingRefs = 0
               /\ req[s].key \in DOMAIN blobs
               /\ ret'.op = "delete" /\ ret'.status = "ok")
             => /\ req[s].fid \notin DOMAIN userFiles'
                /\ req[s].hash \notin DOMAIN fileHashes']_vars

\* The last delete has returned nil, the rows are gone and the object is
\* still in the bucket.
LastDeleteOkBlobKept ==
    /\ ret.op = "delete" /\ ret.status = "ok"
    /\ "h1" \in attempted
    /\ "h1" \in DOMAIN blobs
    /\ "h1" \notin DOMAIN fileHashes
    /\ Refs("h1") = {}

\* C16: GeneratePresignedUploadURL for a hash with no file hash row changes
\* no ledger and, when it succeeds, answers IsDuplicate false with an upload
\* URL: the call returns at its first step, with the user files, the file
\* hashes and the share links as they were.
AuthorizeNewContentReadsOnly ==
    [][(/\ ret'.op = "auth"
        /\ ret'.hash \notin DOMAIN fileHashes
        /\ \A s \in Slots : req[s].op # "auth" \/ req'[s] = req[s])
       => /\ UNCHANGED ledgers
          /\ ret'.status = "ok" => ~ret'.isDuplicate /\ ret'.uploadURL]_vars

\* Authorizations of a new content were given and never completed: no row
\* and no object stand.
AuthorizedNeverCompleted ==
    /\ ret.op = "auth" /\ ret.status = "ok"
    /\ ~ret.isDuplicate /\ ret.uploadURL
    /\ urlCount["h1"] = MaxUrls
    /\ DOMAIN fileHashes = {} /\ DOMAIN userFiles = {} /\ DOMAIN shareLinks = {}
    /\ DOMAIN blobs = {}

\* C17: in every quiescent state reached by interleaved TogglePublic and
\* GetShareLink requests, a private user file has no share link.
PrivateFileHasNoShareLink ==
    Quiescent => \A f \in DOMAIN userFiles :
                    ~userFiles[f].IsPublic => LinkOf(f) = ""

\* C18: DeleteUserFile on a public file that has a share link succeeds with
\* the link removed together with the user file: no share link refers to a
\* user file whose delete has returned nil, and the delete of the row of a
\* file that has a share link goes through (short of a database fault)
\* rather than being refused on account of the link.
ShareLinkGoesWithRecord ==
    [][/\ (ret'.op = "delete" /\ ret'.status = "ok")
          => \A l \in DOMAIN shareLinks' : shareLinks'[l] # ret'.fid
       /\ \A s \in Slots :
             (/\ req[s].op = "delete" /\ req[s].pc = "delUF"
              /\ req'[s] # req[s]
              /\ req[s].fid \in DOMAIN userFiles
              /\ userFiles[req[s].fid].IsPublic
              /\ LinkOf(req[s].fid) # ""
              /\ ret'.err # "db")
             => req'[s].pc = "count"]_vars

\* C19: GetFileDownloadURL serves a private user file to its owner only
\* (any other user and the anonymous caller get the not-found error), and
\* the URL it returns is the unsigned public URL exactly when the file is
\* public and a presigned URL of one minute otherwise.
DownloadURLByVisibility ==
    ret.op = "download" =>
       LET f == ret.fid IN
       /\ ret.status = "ok" =>
             /\ f \in DOMAIN userFiles
             /\ userFiles[f].IsPublic \/ userFiles[f].UserID = ret.user
             /\ ret.url.key = fileHashes[userFiles[f].FileHash].MinIOKey
             /\ ret.url.signed <=> ~userFiles[f].IsPublic
             /\ ret.url.signed => ret.url.expiry = "time.Minute"
       /\ (/\ f \in DOMAIN userFiles
           /\ ~userFiles[f].IsPublic
           /\ userFiles[f].UserID # ret.user)
          => ret.status = "error" /\ ret.err = "notfound" /\ ret.url = NoURL

\* The owner of a private file got a presigned URL for it, while another
\* file is public.
OwnerGotPresignedURL ==
    /\ ret.op = "download" /\ ret.status = "ok"
    /\ ret.user = userFiles[ret.fid].UserID
    /\ ~userFiles[ret.fid].IsPublic
    /\ ret.url.signed
    /\ \E g \in DOMAIN userFiles : userFiles[g].IsPublic

\* C20: BatchPrepareUpload checks the total declared size of the files with
\* a new hash once against what is left of the quota of the user (the
\* storage quota less the current usage): exactly when the total overflows
\* it every such file is answered quota_exceeded, and a file whose hash
\* exists is answered as a duplicate (or as an error).
BatchQuotaGate ==
    [][ret'.op = "batch" =>
          LET overflow == ret'.TotalSizeRequired >
                             StorageQuota - DeduplicatedStorage(ret'.user)
          IN \A i \in 1..Len(ret'.Files) :
                LET file == ret'.Files[i] IN
                IF file.FileHash \in DOMAIN fileHashes
                THEN file.Status \in {"duplicate", "error"}
                ELSE IF overflow THEN file.Status = "quota_exceeded"
                     ELSE file.Status \in {"upload_required", "error"}]_vars

\* finalKey := fileHash: the key the single-file path derives from the hash.
FinalKey(h) == h

\* C21: the object key of every file hash record is a function of its hash
\* alone, the one the single-file path uses, also for a record made by the
\* batch path; so no two records share an object.
BlobKeyDerivedFromHash ==
    /\ \A h \in DOMAIN fileHashes : fileHashes[h].MinIOKey = FinalKey(h)
    /\ \A g, h \in DOMAIN fileHashes :
          fileHashes[g].MinIOKey = fileHashes[h].MinIOKey => g = h

\* C22: the storage delete of DeleteUserFile is never issued inside the
\* transaction: no DeleteUserFile call returns an error, its transaction
\* rolled back or not committed, with the object already deleted and the
\* user file and the file hash record still in place.
NoRollbackAfterBlobDelete ==
    ~(/\ ret.op = "delete" /\ ret.status = "error"
      /\ ret.fid \in DOMAIN userFiles
      /\ ret.hash \in DOMAIN fileHashes
      /\ userFiles[ret.fid].FileHash = ret.hash
      /\ fileHashes[ret.hash].MinIOKey \notin DOMAIN blobs)

\* C23: with no tag operation failing, every public user file has the tag
\* public on its object: the tag operation of a toggle that turns a file
\* public leaves its object tagged, and the tag operation of any toggle
\* leaves tagged the object of every other file that is public, also of one
\* that shares the object.
PublicFilesStayTagged ==
    [][\A s \in Slots :
          (/\ req[s].op = "toggle" /\ req[s].pc = "tag"
           /\ req'[s].op = "toggle" /\ req'[s].pc = "commit")
          => /\ req[s].newPublicStatus => req[s].key \in tags'
             /\ \A g \in DOMAIN userFiles \ {req[s].fid} :
                   (/\ userFiles[g].IsPublic
                    /\ MinIOKeyOf(g) \in tags)
                   => MinIOKeyOf(g) \in tags']_vars

\* C24: an object carries the tag public only while a user file that refers
\* to it is public: whenever no request is running, every tagged object is
\* the object of some public user file.
TagOnlyWhilePublic ==
    Quiescent =>
       \A k \in tags :
          \E f \in DOMAIN userFiles : MinIOKeyOf(f) = k /\ userFiles[f].IsPublic

\* C25: the size of a file hash record is the size declared when the upload
\* was authorized and the size the storage reports for its object.
RecordSizeIsDeclaredSize ==
    \A h \in DOMAIN fileHashes :
       /\ declared[h] = {fileHashes[h].Size}
       /\ fileHashes[h].MinIOKey \in DOMAIN blobs
          => blobs[fileHashes[h].MinIOKey] = fileHashes[h].Size

\* C26: every item a batch authorization reports as "duplicate" has its user
\* file committed and the reference count of its file hash raised by one: a
\* batch step raises the count of each hash, and adds user files of it for
\* the caller, by the number of its items reported as duplicates.
DuplicateMeansCommitted ==
    [][ret'.op = "batch" =>
         \A h \in AllHashes :
            LET n == Cardinality({i \in 1..Len(ret'.Files) :
                                    /\ ret'.Files[i].FileHash = h
                                    /\ ret'.Files[i].Status = "duplicate"})
                added == {f \in DOMAIN userFiles' \ DOMAIN userFiles :
                            /\ userFiles'[f].FileHash = h
                            /\ userFiles'[f].UserID = ret'.user}
            IN n > 0 => /\ h \in DOMAIN fileHashes
                        /\ h \in DOMAIN fileHashes'
                        /\ fileHashes'[h].ReferenceCount
                              = fileHashes[h].ReferenceCount + n
                        /\ Cardinality(added) = n]_vars

\* C27: once CompleteUpload has succeeded a second time with the same object
\* key and hash, and its goroutine is over, the content has two user files, a
\* reference count of 2, and its object is still in the bucket.
RetryCompleteKeepsBlob ==
    \A h \in Hashes :
       Quiescent /\ okUploads[h] = 2 =>
          /\ h \in DOMAIN fileHashes
          /\ fileHashes[h].ReferenceCount = 2
          /\ Cardinality(Refs(h)) = 2
          /\ fileHashes[h].MinIOKey \in DOMAIN blobs

\* C28: ToggleFilePublic flips the flag once per successful call under every
\* interleaving: the persisted flag of a file, private when uploaded, is
\* public exactly when the number of successful toggles of it is odd.
NoToggleLost ==
    \A f \in DOMAIN userFiles : userFiles[f].IsPublic = toggled[f]

\* C29: whatever the stored reference count was, a delete that commits and
\* leaves m >= 1 live user files of the content has written m back: after
\* its commit the reference count of the record equals the live count.
RecountHealsDrift ==
    [][\A s \in Slots :
          /\ req[s].op = "delete" /\ req[s].pc = "commit"
          /\ ret'.op = "delete" /\ ret'.status = "ok"
          /\ Cardinality({f \in DOMAIN userFiles' :
                             userFiles'[f].FileHash = req[s].hash}) >= 1
          => /\ req[s].hash \in DOMAIN fileHashes'
             /\ fileHashes'[req[s].hash].ReferenceCount
                   = Cardinality({f \in DOMAIN userFiles' :
                                     userFiles'[f].FileHash = req[s].hash})]_vars

\* C30: once processFiles has returned, its calls having resolved or
\* rejected, every file handed to it has a terminal status: none is left
\* pending, hashing, preparing or uploading.
EveryFileReachesTerminalStatus ==
    upload.phase = "done" =>
       \A k \in 1..Len(upload.entries) :
          upload.entries[k].status \in TerminalStatuses

====
